---- MODULE Spec2Model ----
(***************************************************************************)
(* SCOPEGREEN (src/scopegreen.js): a spreadsheet custom function that      *)
(* normalises nine parameters, looks a row up in the user cache, and on a  *)
(* miss fetches the LCA metrics API, classifies the response, flattens the *)
(* matches into one row and caches that row for 120 seconds.               *)
(*                                                                         *)
(* JavaScript strings are sequences of text pieces.  In parameters a piece *)
(* is one character; in messages a piece is one phrase.  String.includes   *)
(* of a phrase is membership of that piece.                                *)
(***************************************************************************)
EXTENDS Integers, Sequences, FiniteSets, TLC

(***************************************************************************)
(* JavaScript values: undefined, null, booleans, numbers (finite, NaN,     *)
(* Infinity) and strings, as records of one shape.                         *)
(***************************************************************************)
Undef == [t |-> "undefined", s |-> <<>>, n |-> 0]
Null == [t |-> "null", s |-> <<>>, n |-> 0]
NaN == [t |-> "NaN", s |-> <<>>, n |-> 0]
Infinity == [t |-> "Infinity", s |-> <<>>, n |-> 0]
Num(n) == [t |-> "number", s |-> <<>>, n |-> n]
Str(s) == [t |-> "string", s |-> s, n |-> 0]
Bool(b) == [t |-> "boolean", s |-> <<>>, n |-> IF b THEN 1 ELSE 0]

\* ToBoolean: the test of `x ? a : b`, `if (x)`, `x || y`, `x && y`.
Truthy(v) ==
    CASE v.t = "undefined" -> FALSE
      [] v.t = "null" -> FALSE
      [] v.t = "NaN" -> FALSE
      [] v.t = "number" -> v.n # 0
      [] v.t = "string" -> v.s # <<>>
      [] v.t = "boolean" -> v.n = 1
      [] OTHER -> TRUE

Digits == <<"0", "1", "2", "3", "4", "5", "6", "7", "8", "9">>

IsDigit(c) == \E d \in 1..10 : Digits[d] = c

DigitVal(c) == (CHOOSE d \in 1..10 : Digits[d] = c) - 1

RECURSIVE NatToStr(_)
NatToStr(n) ==
    IF n < 10 THEN <<Digits[n + 1]>>
    ELSE NatToStr(n \div 10) \o <<Digits[(n % 10) + 1]>>

\* toString: x.toString(), "" + x and `${x}`.
toString(v) ==
    CASE v.t = "undefined" -> <<"undefined">>
      [] v.t = "null" -> <<"null">>
      [] v.t = "NaN" -> <<"N", "a", "N">>
      [] v.t = "Infinity" -> <<"Infinity">>
      [] v.t = "number" -> IF v.n < 0 THEN <<"-">> \o NatToStr(-v.n) ELSE NatToStr(v.n)
      [] v.t = "boolean" -> IF v.n = 1 THEN <<"t", "r", "u", "e">>
                            ELSE <<"f", "a", "l", "s", "e">>
      [] OTHER -> v.s

RECURSIVE TrimStart(_)
TrimStart(s) ==
    IF s # <<>> /\ Head(s) = " " THEN TrimStart(Tail(s)) ELSE s

RECURSIVE TrimEnd(_)
TrimEnd(s) ==
    IF s # <<>> /\ s[Len(s)] = " " THEN TrimEnd(SubSeq(s, 1, Len(s) - 1)) ELSE s

\* String.prototype.trim
Trim(s) == TrimEnd(TrimStart(s))

LowerOf(c) == IF c = "A" THEN "a" ELSE c

\* String.prototype.toLowerCase
ToLowerCase(s) == [i \in 1..Len(s) |-> LowerOf(s[i])]

RECURSIVE DigitsValue(_, _)
DigitsValue(s, acc) ==
    IF s # <<>> /\ IsDigit(Head(s))
    THEN DigitsValue(Tail(s), 10 * acc + DigitVal(Head(s)))
    ELSE acc

\* parseInt(x): the leading decimal digits of toString(x) after leading
\* white space and a '-' sign, NaN when there is none.
ParseInt(v) ==
    LET s == TrimStart(toString(v))
        minus == s # <<>> /\ Head(s) = "-"
        digits == IF minus THEN Tail(s) ELSE s
    IN IF digits # <<>> /\ IsDigit(Head(digits))
       THEN Num(IF minus THEN 0 - DigitsValue(digits, 0) ELSE DigitsValue(digits, 0))
       ELSE NaN

(***************************************************************************)
(* Parameter preparation and the cache key (lines 30-41).                  *)
(***************************************************************************)
CarbonFootprint == <<"C", "a", "r", "b", "o", "n", " ", "f", "o", "o", "t", "p", "r", "i", "n", "t">>

Lite == <<"l", "i", "t", "e">>

\* x ? x.toString().trim() : dflt
Prepare(v, dflt) == IF Truthy(v) THEN Trim(toString(v)) ELSE dflt

Normalize(raw) ==
    [itemName |-> Prepare(raw.itemName, <<>>),
     year |-> Prepare(raw.year, <<>>),
     geography |-> Prepare(raw.geography, <<>>),
     metric |-> Prepare(raw.metric, CarbonFootprint),
     domain |-> Prepare(raw.domain, <<>>),
     numMatches |-> IF Truthy(raw.numMatches) THEN ParseInt(raw.numMatches) ELSE Num(1),
     mode |-> IF Truthy(raw.mode) THEN ToLowerCase(Trim(toString(raw.mode))) ELSE Lite,
     notEnglish |-> Bool(raw.notEnglish = Bool(TRUE) \/ raw.notEnglish = Str(<<"t", "r", "u", "e">>)),
     unit |-> Prepare(raw.unit, <<>>)]

CacheKey(p) ==
    <<"L", "C", "A">> \o <<"_">> \o p.itemName \o <<"_">> \o p.year
        \o <<"_">> \o p.geography \o <<"_">> \o p.metric \o <<"_">> \o p.domain
        \o <<"_">> \o toString(p.numMatches) \o <<"_">> \o p.mode
        \o <<"_">> \o toString(p.notEnglish) \o <<"_">> \o p.unit

(***************************************************************************)
(* The API response.  `data` is what JSON.parse(responseText) gives:       *)
(* kind "SyntaxError" when it throws, "null" for the JSON text null, and   *)
(* otherwise a value with the four properties the code reads (a number, a  *)
(* string or an array has none of them).                                   *)
(***************************************************************************)
NoGoodMatch == "No good match was found"

NoError == [k |-> "absent", v |-> Undef, code |-> Undef, message |-> Undef]

ErrorObject(c, m) == [k |-> "object", v |-> Undef, code |-> c, message |-> m]

ErrorScalar(v) == [k |-> "scalar", v |-> v, code |-> Undef, message |-> Undef]

\* data.error as a condition
HasError(e) == e.k = "object" \/ (e.k = "scalar" /\ Truthy(e.v))

NoMatches == [k |-> "absent", items |-> <<>>]

MatchArray(ms) == [k |-> "array", items |-> ms]

NoMetric == [present |-> FALSE, value |-> Undef, unit |-> Undef]

Metric(v, u) == [present |-> TRUE, value |-> v, unit |-> u]

SyntaxError == [kind |-> "SyntaxError", error |-> NoError, message |-> Undef,
                matches |-> NoMatches, explanation |-> Undef]

JsonNull == [kind |-> "null", error |-> NoError, message |-> Undef,
             matches |-> NoMatches, explanation |-> Undef]

JsonValue(e, m, ms, x) == [kind |-> "value", error |-> e, message |-> m,
                           matches |-> ms, explanation |-> x]

\* String.prototype.includes of one phrase
Includes(s, phrase) == \E i \in 1..Len(s) : s[i] = phrase

(***************************************************************************)
(* What a `return` of SCOPEGREEN hands back: the outcome kind, the table,  *)
(* and whether cache.put is reached on the way (line 180).                 *)
(***************************************************************************)
\* as Reply, were every returned row cached on the way out
ReplyCached(o, cell) == [outcome |-> o, table |-> <<<<cell>>>>, put |-> TRUE]

Reply(o, cell) == [outcome |-> o, table |-> <<<<cell>>>>, put |-> FALSE]

\* lines 99-110: the value returned inside the 429 block, if it returns
RateLimitReturns(data) ==
    \/ data.kind \in {"SyntaxError", "null"}
    \/ HasError(data.error) /\ Truthy(data.error.message)

RateLimitReply(data) ==
    IF data.kind \in {"SyntaxError", "null"}
    THEN Reply("RateLimited", Str(<<"Rate limit exceeded: ", "Please try again later.">>))
    ELSE Reply("RateLimited",
               Str(<<"Rate limit exceeded: ">> \o toString(data.error.message)))

\* line 140: data.matches.find(m => m.rank === i), 0 when there is none
RECURSIVE FindFrom(_, _, _)
FindFrom(ms, i, j) ==
    IF j > Len(ms) THEN 0
    ELSE IF ms[j].rank = Num(i) THEN j
    ELSE FindFrom(ms, i, j + 1)

\* as Find, were the match of rank i taken to be the i-th element
FindByPosition(ms, i) == IF i <= Len(ms) THEN i ELSE 0

Find(ms, i) == FindFrom(ms, i, 1)

\* x || ""
OrEmpty(v) == IF Truthy(v) THEN v ELSE Str(<<>>)

\* as MatchCells, with unit pushed before value
MatchCellsUnitFirst(i, m) ==
    <<Str(<<"Match ">> \o NatToStr(i) \o <<": ">> \o toString(m.matched_name)),
      m.metric.unit,
      m.metric.value,
      OrEmpty(m.year),
      OrEmpty(m.geography),
      OrEmpty(m.source),
      OrEmpty(m.source_link),
      OrEmpty(m.conversion_info)>>

\* lines 144-167: the eight cells pushed for a located match
MatchCells(i, m) ==
    <<Str(<<"Match ">> \o NatToStr(i) \o <<": ">> \o toString(m.matched_name)),
      m.metric.value,
      m.metric.unit,
      OrEmpty(m.year),
      OrEmpty(m.geography),
      OrEmpty(m.source),
      OrEmpty(m.source_link),
      OrEmpty(m.conversion_info)>>

\* as LoopTest, were the loop bound numMatches alone
LoopTestNoMin(i, numMatches, len) ==
    /\ numMatches.t = "number"
    /\ i <= numMatches.n

\* i <= Math.min(numMatches, data.matches.length); a comparison with NaN is false
LoopTest(i, numMatches, len) ==
    /\ numMatches.t = "number"
    /\ i <= (IF numMatches.n < len THEN numMatches.n ELSE len)

TypeErrorText == <<"TypeError: ", "Cannot read properties of undefined">>

\* lines 139-169: the loop; reading match.metric.value of a match without
\* metric throws a TypeError
RECURSIVE FormatLoop(_, _, _, _)
FormatLoop(i, numMatches, ms, result) ==
    IF ~LoopTest(i, numMatches, Len(ms)) THEN [threw |-> FALSE, row |-> result]
    ELSE LET j == Find(ms, i)
         IN IF j = 0 THEN FormatLoop(i + 1, numMatches, ms, result)
            ELSE IF ~ms[j].metric.present THEN [threw |-> TRUE, row |-> result]
            ELSE FormatLoop(i + 1, numMatches, ms, result \o MatchCells(i, ms[j]))

\* lines 136-176
FormatRow(numMatches, data) ==
    LET r == FormatLoop(1, numMatches, data.matches.items, <<>>)
    IN [threw |-> r.threw, row |-> r.row \o <<OrEmpty(data.explanation)>>]

\* as Caught, without the test for "execution time"
CaughtTimeoutOnly(err) ==
    IF Includes(err, "timeout")
    THEN Reply("Timeout",
               Str(<<"Error: API request timed out. Try simplifying your query.">>))
    ELSE Reply("GenericFailure", Str(<<"Error: ">> \o err))

\* lines 198-206
Caught(err) ==
    IF Includes(err, "timeout") \/ Includes(err, "execution time")
    THEN Reply("Timeout",
               Str(<<"Error: API request timed out. Try simplifying your query.">>))
    ELSE Reply("GenericFailure", Str(<<"Error: ">> \o err))

\* as MalformedReply, were a body that is not JSON reported as an error
MalformedReplyWrapped(text) ==
    Reply("Malformed", Str(<<"Error: ", "Invalid response from API">>))

\* lines 118-121: return [[responseText]]
MalformedReply(text) == Reply("Malformed", Str(text))

\* as Classify, with the 'No good match was found' test ahead of the error test
ClassifyNoMatchFirst(text, data, numMatches) ==
    IF data.kind \in {"SyntaxError", "null"} THEN MalformedReply(text)
    ELSE IF Truthy(data.message) /\ data.message.t = "string"
            /\ Includes(data.message.s, NoGoodMatch)
    THEN Reply("NoMatch", data.message)
    ELSE IF HasError(data.error)
    THEN Reply("ApiError", Str(toString(data.error.code) \o <<": ">>
                                   \o toString(data.error.message)))
    ELSE IF data.matches.k = "array" /\ Len(data.matches.items) > 0
    THEN LET r == FormatRow(numMatches, data)
         IN IF r.threw THEN Caught(TypeErrorText)
            ELSE [outcome |-> "Success", table |-> <<r.row>>, put |-> TRUE]
    ELSE IF Truthy(data.message)
    THEN Reply("UnexpectedShape", Str(<<"Message from API: ">> \o toString(data.message)))
    ELSE Reply("UnexpectedShape", Str(text))

\* as Classify, without the final test for a message
ClassifyRawFallback(text, data, numMatches) ==
    IF data.kind \in {"SyntaxError", "null"} THEN MalformedReply(text)
    ELSE IF HasError(data.error)
    THEN Reply("ApiError", Str(toString(data.error.code) \o <<": ">>
                                   \o toString(data.error.message)))
    ELSE IF Truthy(data.message) /\ data.message.t = "string"
            /\ Includes(data.message.s, NoGoodMatch)
    THEN Reply("NoMatch", data.message)
    ELSE IF data.matches.k = "array" /\ Len(data.matches.items) > 0
    THEN LET r == FormatRow(numMatches, data)
         IN IF r.threw THEN Caught(TypeErrorText)
            ELSE [outcome |-> "Success", table |-> <<r.row>>, put |-> TRUE]
    ELSE Reply("UnexpectedShape", Str(text))

\* lines 112-197
Classify(text, data, numMatches) ==
    IF data.kind \in {"SyntaxError", "null"} THEN MalformedReply(text)
    ELSE IF HasError(data.error)
    THEN Reply("ApiError", Str(toString(data.error.code) \o <<": ">>
                                   \o toString(data.error.message)))
    ELSE IF Truthy(data.message) /\ data.message.t = "string"
            /\ Includes(data.message.s, NoGoodMatch)
    THEN Reply("NoMatch", data.message)
    ELSE IF data.matches.k = "array" /\ Len(data.matches.items) > 0
    THEN LET r == FormatRow(numMatches, data)
         IN IF r.threw THEN Caught(TypeErrorText)
            ELSE [outcome |-> "Success", table |-> <<r.row>>, put |-> TRUE]
    ELSE IF Truthy(data.message)
    THEN Reply("UnexpectedShape", Str(<<"Message from API: ">> \o toString(data.message)))
    ELSE Reply("UnexpectedShape", Str(text))

\* lines 88-206: from the outcome of UrlFetchApp.fetch to the return
Respond(f, numMatches) ==
    IF f.threw THEN Caught(f.err)
    ELSE IF f.status = 429 /\ RateLimitReturns(f.data) THEN RateLimitReply(f.data)
    ELSE Classify(f.text, f.data, numMatches)

(***************************************************************************)
(* The query string (lines 60-72), character by character.                 *)
(***************************************************************************)
\* as EscapeChar, were the character appended as it is
VerbatimChar(c) == <<c>>

\* letters, digits and '_' stay; ' ', '&' and '=' become their %XX escapes
EscapeChar(c) ==
    CASE c = " " -> <<"%", "2", "0">>
      [] c = "&" -> <<"%", "2", "6">>
      [] c = "=" -> <<"%", "3", "D">>
      [] OTHER -> <<c>>

RECURSIVE EncodeURIComponent(_)
EncodeURIComponent(s) ==
    IF s = <<>> THEN <<>> ELSE EscapeChar(Head(s)) \o EncodeURIComponent(Tail(s))

ItemNameEq == <<"i", "t", "e", "m", "_", "n", "a", "m", "e", "=">>
YearEq == <<"&", "y", "e", "a", "r", "=">>
GeographyEq == <<"&", "g", "e", "o", "g", "r", "a", "p", "h", "y", "=">>
MetricEq == <<"&", "m", "e", "t", "r", "i", "c", "=">>
ModeEq == <<"&", "m", "o", "d", "e", "=">>
WebModeFalse == <<"&", "w", "e", "b", "_", "m", "o", "d", "e", "=", "f", "a", "l", "s", "e">>
NumMatchesEq == <<"&", "n", "u", "m", "_", "m", "a", "t", "c", "h", "e", "s", "=">>
DomainEq == <<"&", "d", "o", "m", "a", "i", "n", "=">>
NotEnglishEq == <<"&", "n", "o", "t", "_", "e", "n", "g", "l", "i", "s", "h", "=">>
UnitEq == <<"&", "u", "n", "i", "t", "=">>

\* if (x) queryParams += `&name=${encodeURIComponent(x)}`
Optional(present, name, value) ==
    IF present THEN name \o EncodeURIComponent(value) ELSE <<>>

QueryParams(p) ==
    ItemNameEq \o EncodeURIComponent(p.itemName)
        \o Optional(p.year # <<>>, YearEq, p.year)
        \o Optional(p.geography # <<>>, GeographyEq, p.geography)
        \o Optional(p.metric # <<>>, MetricEq, p.metric)
        \o Optional(p.mode # <<>>, ModeEq, p.mode)
        \o WebModeFalse
        \o Optional(Truthy(p.numMatches), NumMatchesEq, toString(p.numMatches))
        \o Optional(p.domain # <<>>, DomainEq, p.domain)
        \o NotEnglishEq \o EncodeURIComponent(toString(p.notEnglish))
        \o Optional(p.unit # <<>>, UnitEq, p.unit)

(***************************************************************************)
(* The cache stores text.  JSON.stringify writes undefined and the         *)
(* non-finite numbers of an array as null; JSON.parse reads the text back. *)
(***************************************************************************)
ToJSON(v) == IF v.t \in {"undefined", "NaN", "Infinity"} THEN Null ELSE v

\* as JSONstringify, were the text cut after the first eight cells of a row
JSONstringifyCut(table) ==
    [valid |-> TRUE,
     value |-> [r \in 1..Len(table) |->
                  [c \in 1..(IF Len(table[r]) > 8 THEN 8 ELSE Len(table[r])) |->
                     ToJSON(table[r][c])]]]

JSONstringify(table) ==
    [valid |-> TRUE,
     value |-> [r \in 1..Len(table) |-> [c \in 1..Len(table[r]) |-> ToJSON(table[r][c])]]]

JSONparse(text) == text.value

(***************************************************************************)
(* The inputs of the model: the calls a sheet makes and the outcomes of    *)
(* UrlFetchApp.fetch.                                                      *)
(***************************************************************************)
RawInput(item, year, num, ne) ==
    [itemName |-> item, year |-> year, geography |-> Undef, metric |-> Undef,
     domain |-> Undef, numMatches |-> num, mode |-> Undef, notEnglish |-> ne,
     unit |-> Undef]

\* The first two calls differ in itemName and year; the last two differ only
\* in white space and in the type of numMatches.
Inputs ==
    {RawInput(Str(<<"a", "_">>), Undef, Num(2), Undef),
     RawInput(Str(<<"a">>), Str(<<"_">>), Num(2), Undef),
     RawInput(Str(<<" ", "a">>), Undef, Num(3), Bool(TRUE)),
     RawInput(Str(<<"a", " ">>), Undef, Str(<<"3">>), Str(<<"t", "r", "u", "e">>))}

\* calls whose numMatches is outside the range 1-3 of the documentation
OddInputs ==
    {RawInput(Str(<<"a">>), Undef, num, Undef) :
        num \in {Str(<<"x">>), Num(-1), Str(<<"0">>)}}

Keys == {CacheKey(Normalize(r)) : r \in Inputs \cup OddInputs}

MaxRank == 3

Match(r, name, m, other) ==
    [rank |-> Num(r), matched_name |-> name, metric |-> m, year |-> other,
     geography |-> other, source |-> other, source_link |-> other,
     conversion_info |-> other]

Steel == Match(1, Str(<<"steel">>), Metric(Num(2), Str(<<"kg CO2e">>)), Str(<<"x">>))

Iron(r) == Match(r, Str(<<"iron">>), Metric(Num(5), Str(<<"kg CO2e">>)), Undef)

\* metric: {} in the body: value and unit are undefined
Bare == Match(1, Undef, Metric(Undef, Undef), Undef)

\* "value": 1e999 in the body, which JSON.parse reads as Infinity
Huge == Match(1, Str(<<"steel">>), Metric(Infinity, Str(<<"kg CO2e">>)), Undef)

\* no metric in the body
Broken == Match(2, Str(<<"steel">>), NoMetric, Undef)

MatchLists ==
    {NoMatches, MatchArray(<<>>), MatchArray(<<Steel>>), MatchArray(<<Bare>>),
     MatchArray(<<Huge>>), MatchArray(<<Steel, Broken>>)}
        \cup {MatchArray(<<Iron(r), Steel>>) : r \in 2..MaxRank}

Errors ==
    {NoError, ErrorScalar(Null), ErrorObject(Num(4), Str(<<"slow down">>)),
     ErrorObject(Str(<<"E">>), Undef)}

Messages == {Undef, Str(<<NoGoodMatch, " for X">>), Str(<<"hello">>)}

Explanations == {Undef, Str(<<"because">>)}

Datas ==
    {SyntaxError, JsonNull}
        \cup {JsonValue(e, m, ms, x) :
                e \in Errors, m \in Messages, ms \in MatchLists, x \in Explanations}

\* The body text that JSON.parse reads as `data`.
TextOf(data) ==
    CASE data.kind = "SyntaxError" -> <<"<html>">>
      [] data.kind = "null" -> <<"null">>
      [] OTHER ->
           <<"{", data.error.k>> \o toString(data.error.code)
               \o toString(data.error.message) \o <<",">> \o toString(data.message)
               \o <<",", data.matches.k>>
               \o [i \in 1..Len(data.matches.items) |->
                     toString(data.matches.items[i].rank)[1]]
               \o <<",">> \o toString(data.explanation) \o <<"}">>

Response(status, data) ==
    [threw |-> FALSE, err |-> <<>>, status |-> status, text |-> TextOf(data),
     data |-> data]

Thrown(err) ==
    [threw |-> TRUE, err |-> err, status |-> 0, text |-> <<>>, data |-> SyntaxError]

Statuses == {200, 429, 500}

Fetches ==
    {Response(st, d) : st \in Statuses, d \in Datas}
        \cup {Thrown(<<"Exception: ", "timeout">>),
              Thrown(<<"Exceeded maximum ", "execution time">>),
              Thrown(<<"Exception: ", "Address unavailable">>)}

(***************************************************************************)
(* State.  cache is the user cache; inv[p] is invocation p of SCOPEGREEN:  *)
(* where it stands, its locals, and what it has done so far.  wrote[k]     *)
(* remembers the table returned by the invocation whose put is in cache[k].*)
(***************************************************************************)
VARIABLES cache, wrote, inv

vars == <<cache, wrote, inv>>

Procs == {1, 2}

NoEntry == [present |-> FALSE, text |-> [valid |-> TRUE, value |-> <<>>], ttl |-> 0]

NoWrite == [present |-> FALSE, table |-> <<>>, norm |-> Normalize(RawInput(Undef, Undef, Undef, Undef))]

NoReply == [outcome |-> "none", table |-> <<>>, put |-> FALSE]

Idle ==
    [pc |-> "idle", raw |-> RawInput(Undef, Undef, Undef, Undef),
     norm |-> Normalize(RawInput(Undef, Undef, Undef, Undef)), key |-> <<>>,
     fetched |-> Thrown(<<>>), reply |-> NoReply, hit |-> FALSE, ret |-> <<>>,
     nGet |-> 0, nFetch |-> 0, nPut |-> 0, getFailed |-> FALSE, putFailed |-> FALSE,
     corrupt |-> FALSE, query |-> <<>>]

Init ==
    /\ cache = [k \in Keys |-> NoEntry]
    /\ wrote = [k \in Keys |-> NoWrite]
    /\ inv = [p \in Procs |-> Idle]

\* lines 16-41: the call, parameter preparation and the cache key
Invoke(p, raw) ==
    /\ inv[p].pc = "idle"
    /\ inv' = [inv EXCEPT ![p] = [Idle EXCEPT !.pc = "get", !.raw = raw,
                                              !.norm = Normalize(raw),
                                              !.key = CacheKey(Normalize(raw))]]
    /\ UNCHANGED <<cache, wrote>>

\* as CacheGet, were JSON.parse(cachedResult) outside a try block: an entry
\* that does not parse raises
CacheGetUnguardedParse(p, fails) ==
    /\ inv[p].pc = "get"
    /\ LET cachedResult == cache[inv[p].key]
       IN inv' = [inv EXCEPT ![p] =
               IF fails
               THEN [@ EXCEPT !.pc = "raised", !.nGet = @ + 1, !.getFailed = TRUE]
               ELSE IF cachedResult.present /\ cachedResult.text.valid
               THEN [@ EXCEPT !.pc = "returned", !.nGet = @ + 1, !.hit = TRUE,
                              !.ret = JSONparse(cachedResult.text)]
               ELSE IF cachedResult.present
               THEN [@ EXCEPT !.pc = "raised", !.nGet = @ + 1, !.corrupt = TRUE]
               ELSE [@ EXCEPT !.pc = "fetch", !.nGet = @ + 1]]
    /\ UNCHANGED <<cache, wrote>>

\* lines 44-54: getUserCache and cache.get are outside every try block, so a
\* failure of either leaves SCOPEGREEN as a raised error; a parsed entry is
\* returned; an entry that does not parse falls through to the API call.
CacheGet(p, fails) ==
    /\ inv[p].pc = "get"
    /\ LET cachedResult == cache[inv[p].key]
       IN inv' = [inv EXCEPT ![p] =
               IF fails
               THEN [@ EXCEPT !.pc = "raised", !.nGet = @ + 1, !.getFailed = TRUE]
               ELSE IF cachedResult.present /\ cachedResult.text.valid
               THEN [@ EXCEPT !.pc = "returned", !.nGet = @ + 1, !.hit = TRUE,
                              !.ret = JSONparse(cachedResult.text)]
               ELSE IF cachedResult.present
               THEN [@ EXCEPT !.pc = "fetch", !.nGet = @ + 1, !.corrupt = TRUE]
               ELSE [@ EXCEPT !.pc = "fetch", !.nGet = @ + 1]]
    /\ UNCHANGED <<cache, wrote>>

\* lines 56-176 and 186-206: the query, the one fetch, and everything up to
\* either a return or the cache.put of line 180
Fetch(p, f) ==
    /\ inv[p].pc = "fetch"
    /\ LET r == Respond(f, inv[p].norm.numMatches)
       IN inv' = [inv EXCEPT ![p] =
               IF r.put
               THEN [@ EXCEPT !.pc = "put", !.fetched = f, !.reply = r, !.nFetch = @ + 1,
                              !.query = QueryParams(inv[p].norm)]
               ELSE [@ EXCEPT !.pc = "returned", !.fetched = f, !.reply = r,
                              !.nFetch = @ + 1, !.ret = r.table,
                              !.query = QueryParams(inv[p].norm)]]
    /\ UNCHANGED <<cache, wrote>>

TTL == 120

\* as CachePut, were cache.put outside a try block: a failing put raises
CachePutUnguarded(p, fails) ==
    /\ inv[p].pc = "put"
    /\ inv' = [inv EXCEPT ![p] =
            IF fails
            THEN [@ EXCEPT !.pc = "raised", !.nPut = @ + 1, !.putFailed = TRUE]
            ELSE [@ EXCEPT !.pc = "returned", !.nPut = @ + 1,
                           !.ret = inv[p].reply.table]]
    /\ IF fails THEN UNCHANGED <<cache, wrote>>
       ELSE /\ cache' = [cache EXCEPT ![inv[p].key] =
                            [present |-> TRUE,
                             text |-> JSONstringify(inv[p].reply.table),
                             ttl |-> 120]]
            /\ wrote' = [wrote EXCEPT ![inv[p].key] =
                            [present |-> TRUE, table |-> inv[p].reply.table,
                             norm |-> inv[p].norm]]

\* as CachePut, were the expiration left out of the call: the entry lives
\* the 600 seconds of the cache service's default
CachePutDefaultExpiry(p, fails) ==
    /\ inv[p].pc = "put"
    /\ inv' = [inv EXCEPT ![p] = [@ EXCEPT !.pc = "returned", !.nPut = @ + 1,
                                           !.putFailed = fails,
                                           !.ret = inv[p].reply.table]]
    /\ IF fails THEN UNCHANGED <<cache, wrote>>
       ELSE /\ cache' = [cache EXCEPT ![inv[p].key] =
                            [present |-> TRUE,
                             text |-> JSONstringify(inv[p].reply.table),
                             ttl |-> 600]]
            /\ wrote' = [wrote EXCEPT ![inv[p].key] =
                            [present |-> TRUE, table |-> inv[p].reply.table,
                             norm |-> inv[p].norm]]

\* lines 178-185: cache.put(cacheKey, JSON.stringify([result]), 120) inside a
\* try block, then return [result]
CachePut(p, fails) ==
    /\ inv[p].pc = "put"
    /\ inv' = [inv EXCEPT ![p] = [@ EXCEPT !.pc = "returned", !.nPut = @ + 1,
                                           !.putFailed = fails,
                                           !.ret = inv[p].reply.table]]
    /\ IF fails THEN UNCHANGED <<cache, wrote>>
       ELSE /\ cache' = [cache EXCEPT ![inv[p].key] =
                            [present |-> TRUE,
                             text |-> JSONstringify(inv[p].reply.table),
                             ttl |-> TTL]]
            /\ wrote' = [wrote EXCEPT ![inv[p].key] =
                            [present |-> TRUE, table |-> inv[p].reply.table,
                             norm |-> inv[p].norm]]

\* the caller receives the table or the error; the cell may be recalculated
Finish(p) ==
    /\ inv[p].pc \in {"returned", "raised"}
    /\ inv' = [inv EXCEPT ![p] = Idle]
    /\ UNCHANGED <<cache, wrote>>

\* the cache service drops an entry, at the latest 120 seconds after its put
Expire(k) ==
    /\ cache[k].present
    /\ cache' = [cache EXCEPT ![k] = NoEntry]
    /\ wrote' = [wrote EXCEPT ![k] = NoWrite]
    /\ UNCHANGED inv

Step(p) ==
    \/ \E raw \in Inputs : Invoke(p, raw)
    \/ \E fails \in BOOLEAN : CacheGet(p, fails)
    \/ \E f \in Fetches : Fetch(p, f)
    \/ \E fails \in BOOLEAN : CachePut(p, fails)
    \/ Finish(p)

\* one sheet cell calling SCOPEGREEN again and again
Next ==
    \/ Step(1)
    \/ \E k \in Keys : Expire(k)

Spec == Init /\ [][Next]_vars

(***************************************************************************)
(* The cache with entries that line 180 did not write: text under one of   *)
(* the keys that JSON.parse rejects.                                       *)
(***************************************************************************)
CorruptEntry == [present |-> TRUE, text |-> [valid |-> FALSE, value |-> <<>>], ttl |-> TTL]

Corrupt(k) ==
    /\ cache[k] # CorruptEntry
    /\ cache' = [cache EXCEPT ![k] = CorruptEntry]
    /\ wrote' = [wrote EXCEPT ![k] = NoWrite]
    /\ UNCHANGED inv

\* the keys of the calls of Spec
InputKeys == {CacheKey(Normalize(r)) : r \in Inputs}

SharedNext ==
    \/ Next
    \/ \E k \in InputKeys : Corrupt(k)

SharedSpec == Init /\ [][SharedNext]_vars

(***************************************************************************)
(* Parameter preparation and the cache key on their own: two calls are     *)
(* started with parameters drawn from RawTuples.                           *)
(***************************************************************************)
RawTuples ==
    {[itemName |-> item, year |-> year, geography |-> Undef, metric |-> Undef,
      domain |-> Undef, numMatches |-> num, mode |-> mode, notEnglish |-> ne,
      unit |-> unit] :
        item \in {Str(<<"a">>), Str(<<"a", "_">>), Str(<<" ", "a">>)},
        year \in {Undef, Str(<<"_">>)},
        num \in {Undef, Num(2), Str(<<"x">>)},
        mode \in {Undef, Str(<<"A">>)},
        ne \in {Undef, Bool(TRUE)},
        unit \in {Undef, Str(<<"a">>)}}

KeyNext == \E p \in Procs : \E raw \in RawTuples : Invoke(p, raw)

KeySpec == Init /\ [][KeyNext]_vars

(***************************************************************************)
(* Classification and row formatting on their own: one call that missed    *)
(* the cache receives a response with matches drawn from MatchPool.        *)
(***************************************************************************)
MaxLen == 3

MatchPool ==
    {Match(r, Str(<<"steel">>), Metric(Num(r), Str(<<"kg CO2e">>)), Str(<<"x">>)) :
        r \in 1..MaxRank}
        \cup {Iron(r) : r \in 1..MaxRank}

MatchSeqs == UNION {[1..n -> MatchPool] : n \in 1..MaxLen}

FormatFetches ==
    {Response(200, JsonValue(NoError, Undef, MatchArray(ms), x)) :
        ms \in MatchSeqs, x \in Explanations}

FormatInputs ==
    {RawInput(Str(<<"a">>), Undef, num, Undef) :
        num \in {Undef, Num(2), Num(3), Str(<<"0">>), Str(<<"x">>)}}

FormatInit ==
    /\ cache = [k \in Keys |-> NoEntry]
    /\ wrote = [k \in Keys |-> NoWrite]
    /\ \E raw \in FormatInputs :
          inv = [p \in Procs |->
                   IF p = 1
                   THEN [Idle EXCEPT !.pc = "fetch", !.raw = raw,
                                     !.norm = Normalize(raw),
                                     !.key = CacheKey(Normalize(raw)), !.nGet = 1]
                   ELSE Idle]

FormatNext == \E f \in FormatFetches : Fetch(1, f)

FormatSpec == FormatInit /\ [][FormatNext]_vars

(***************************************************************************)
(* The query string on its own: one call that missed the cache, with       *)
(* parameters drawn from QueryTuples, sends its request.                   *)
(***************************************************************************)
QueryTuples ==
    {[itemName |-> item, year |-> year, geography |-> geo, metric |-> metric,
      domain |-> domain, numMatches |-> num, mode |-> mode, notEnglish |-> ne,
      unit |-> unit] :
        item \in {Str(<<"a">>), Str(<<"&", "y", "e", "a", "r", "=", "7">>), Str(<<" ", "a", " ">>)},
        year \in {Undef, Num(7), Str(<<" ">>)},
        geo \in {Undef, Str(<<"a">>)},
        metric \in {Undef, Str(<<" ">>)},
        domain \in {Undef, Str(<<"a", "&">>)},
        num \in {Undef, Num(2), Str(<<"0">>), Str(<<"x">>)},
        mode \in {Undef, Str(<<" ">>)},
        ne \in {Undef, Bool(TRUE)},
        unit \in {Undef, Str(<<"=">>)}}

QueryFetches ==
    {Response(500, SyntaxError), Thrown(<<"Exception: ", "timeout">>)}

QueryInit ==
    /\ cache = [k \in Keys |-> NoEntry]
    /\ wrote = [k \in Keys |-> NoWrite]
    /\ \E raw \in QueryTuples :
          inv = [p \in Procs |->
                   IF p = 1
                   THEN [Idle EXCEPT !.pc = "fetch", !.raw = raw,
                                     !.norm = Normalize(raw),
                                     !.key = CacheKey(Normalize(raw)), !.nGet = 1]
                   ELSE Idle]

QueryNext == \E f \in QueryFetches : Fetch(1, f)

QuerySpec == QueryInit /\ [][QueryNext]_vars

(***************************************************************************)
(* Two sheet cells calling SCOPEGREEN at once on one user cache; each get  *)
(* and each put is one step of the cache service.                          *)
(***************************************************************************)
\* the two calls with the same prepared parameters, and one with another key
ConcInputs == {raw \in Inputs : raw.year = Undef}

ConcFetches ==
    {Response(200, JsonValue(NoError, Undef, MatchArray(<<Steel>>), Undef)),
     Response(200, JsonValue(NoError, Undef, MatchArray(<<Bare>>), Str(<<"because">>))),
     Response(200, JsonValue(NoError, Undef, MatchArray(<<Iron(2), Steel>>), Undef)),
     Response(429, JsonValue(ErrorObject(Num(4), Str(<<"slow down">>)), Undef, NoMatches, Undef)),
     Thrown(<<"Exception: ", "timeout">>)}

ConcStep(p) ==
    \/ \E raw \in ConcInputs : Invoke(p, raw)
    \/ \E fails \in BOOLEAN : CacheGet(p, fails)
    \/ \E f \in ConcFetches : Fetch(p, f)
    \/ \E fails \in BOOLEAN : CachePut(p, fails)
    \/ Finish(p)

ConcNext ==
    \/ \E p \in Procs : ConcStep(p)
    \/ \E k \in Keys : Expire(k)

ConcSpec == Init /\ [][ConcNext]_vars

(***************************************************************************)
(* What the cache holds when numMatches is any value a sheet can pass:     *)
(* two cells calling with numMatches 'x', -1, '0' and 2.                   *)
(***************************************************************************)
EntryInputs == OddInputs \cup {RawInput(Str(<<"a", "_">>), Undef, Num(2), Undef)}

EntryFetches ==
    {Response(200, JsonValue(NoError, Undef, MatchArray(<<Steel>>), Undef)),
     Response(200, JsonValue(NoError, Undef, MatchArray(<<Iron(2), Steel>>), Str(<<"because">>))),
     Response(200, JsonValue(NoError, Str(<<NoGoodMatch, " for X">>), NoMatches, Undef)),
     Response(500, JsonValue(ErrorObject(Num(4), Str(<<"slow down">>)), Undef, NoMatches, Undef)),
     Response(200, SyntaxError)}

EntryStep(p) ==
    \/ \E raw \in EntryInputs : Invoke(p, raw)
    \/ \E fails \in BOOLEAN : CacheGet(p, fails)
    \/ \E f \in EntryFetches : Fetch(p, f)
    \/ \E fails \in BOOLEAN : CachePut(p, fails)
    \/ Finish(p)

EntryNext ==
    \/ \E p \in Procs : EntryStep(p)
    \/ \E k \in Keys : Expire(k)

EntrySpec == Init /\ [][EntryNext]_vars

(***************************************************************************)
(* Properties.                                                             *)
(***************************************************************************)
\* the response of an invocation that has fetched and got one
Got(p) == inv[p].nFetch = 1 /\ ~inv[p].fetched.threw

\* data.message is a string containing 'No good match was found'
SaysNoMatch(data) ==
    data.message.t = "string" /\ Includes(data.message.s, NoGoodMatch)

\* C1: two prepared parameter 9-tuples get the same cache key if and only if
\* they are equal in every field, also when a string field contains '_'.
C1_KeyInjective ==
    \A p, q \in Procs :
        (inv[p].pc = "get" /\ inv[q].pc = "get")
            => ((inv[p].key = inv[q].key) <=> (inv[p].norm = inv[q].norm))

\* C2: an invocation answered from the entry that an earlier Success
\* invocation with the same prepared parameters wrote returns the table that
\* invocation returned, without a fetch and without a put.
C2_HitReturnsWrittenRow ==
    \A p \in Procs :
        (/\ inv[p].pc = "returned"
         /\ inv[p].hit
         /\ wrote[inv[p].key].present
         /\ wrote[inv[p].key].norm = inv[p].norm)
            => (/\ inv[p].ret = wrote[inv[p].key].table
                /\ inv[p].nFetch = 0
                /\ inv[p].nPut = 0)

\* C3: no invocation leaves SCOPEGREEN as a raised error, whatever the cache
\* and the HTTP client do.
C3_NeverRaises == \A p \in Procs : inv[p].pc # "raised"

\* C4: a response with status 429 always yields the single cell
\* 'Rate limit exceeded: <m>', <m> being the body's error.message when the
\* body parses and has one and the generic text otherwise, and never reaches
\* cache.put.
C4_429AlwaysRateLimited ==
    \A p \in Procs :
        (Got(p) /\ inv[p].fetched.status = 429)
            => LET data == inv[p].fetched.data
                   m == IF data.kind = "value" /\ HasError(data.error)
                           /\ Truthy(data.error.message)
                        THEN toString(data.error.message)
                        ELSE <<"Please try again later.">>
               IN /\ inv[p].reply.outcome = "RateLimited"
                  /\ inv[p].reply.table = <<<<Str(<<"Rate limit exceeded: ">> \o m)>>>>
                  /\ inv[p].pc = "returned"
                  /\ inv[p].nPut = 0

\* the body of a Success: parsed, no error, no 'No good match was found'
\* message, a non-empty matches array
SuccessBody(f) ==
    /\ ~f.threw
    /\ f.data.kind = "value"
    /\ ~HasError(f.data.error)
    /\ ~SaysNoMatch(f.data)
    /\ f.data.matches.k = "array"
    /\ f.data.matches.items # <<>>

\* C5: cache.put is reached only by an invocation whose outcome is Success;
\* an invocation with any other outcome, or served from the cache, puts
\* nothing, and no step other than such a put stores an entry.
C5_PutOnlyOnSuccess ==
    /\ [](\A p \in Procs :
            /\ (inv[p].pc = "put" \/ inv[p].nPut > 0)
                  => (/\ inv[p].reply.outcome = "Success"
                      /\ SuccessBody(inv[p].fetched)
                      /\ ~inv[p].hit)
            /\ (inv[p].pc = "returned" /\ inv[p].reply.outcome # "Success")
                  => inv[p].nPut = 0)
    /\ [][\A k \in Keys :
            (cache'[k] # cache[k] /\ cache'[k].present)
                => \E p \in Procs :
                      /\ inv[p].pc = "put"
                      /\ inv'[p].pc = "returned"
                      /\ inv[p].key = k
                      /\ inv[p].reply.outcome = "Success"
                      /\ cache'[k].text = JSONstringify(inv'[p].ret)]_vars

C5_Witness ==
    \E p \in Procs :
        /\ inv[p].pc = "returned"
        /\ inv[p].nPut = 1
        /\ ~inv[p].putFailed
        /\ cache[inv[p].key].present

\* the call of FormatSpec, once its response has been classified as Success
Formatted == Got(1) /\ inv[1].reply.outcome = "Success"

\* the loop bound min(numMatches, matches.length); no rank when it is NaN
RankBound(numMatches, ms) ==
    IF numMatches.t # "number" THEN 0
    ELSE IF numMatches.n < Len(ms) THEN numMatches.n ELSE Len(ms)

\* the ranks up to the bound that some match carries
Located(numMatches, ms) ==
    {i \in 1..RankBound(numMatches, ms) : \E j \in 1..Len(ms) : ms[j].rank = Num(i)}

\* v or ''
OrBlank(v) == IF Truthy(v) THEN v ELSE Str(<<>>)

\* C6: a Success table is one row: for each rank i of 1..min(numMatches,
\* matches.length) that some match carries, in ascending order, the eight
\* cells of a match of rank i, then one cell with the explanation or ''; the
\* row has 8k+1 cells for k such ranks.
C6_RowLayout ==
    Formatted =>
        LET ms == inv[1].fetched.data.matches.items
            ranks == Located(inv[1].norm.numMatches, ms)
            k == Cardinality(ranks)
            table == inv[1].reply.table
            row == table[1]
        IN /\ Len(table) = 1
           /\ Len(row) = 8 * k + 1
           /\ row[8 * k + 1] = OrBlank(inv[1].fetched.data.explanation)
           /\ \A i \in ranks :
                 LET at == 8 * Cardinality({x \in ranks : x < i})
                 IN \E j \in 1..Len(ms) :
                       /\ ms[j].rank = Num(i)
                       /\ row[at + 1] = Str(<<"Match ">> \o NatToStr(i) \o <<": ">>
                                              \o toString(ms[j].matched_name))
                       /\ row[at + 2] = ms[j].metric.value
                       /\ row[at + 3] = ms[j].metric.unit
                       /\ row[at + 4] = OrBlank(ms[j].year)
                       /\ row[at + 5] = OrBlank(ms[j].geography)
                       /\ row[at + 6] = OrBlank(ms[j].source)
                       /\ row[at + 7] = OrBlank(ms[j].source_link)
                       /\ row[at + 8] = OrBlank(ms[j].conversion_info)

\* numMatches = 2, matches of rank 1 and 2 in either order: 17 cells
C6_Witness ==
    /\ Formatted
    /\ inv[1].norm.numMatches = Num(2)
    /\ Len(inv[1].fetched.data.matches.items) = 2
    /\ inv[1].fetched.data.matches.items[1].rank = Num(2)
    /\ inv[1].fetched.data.matches.items[2].rank = Num(1)
    /\ Len(inv[1].reply.table[1]) = 17

\* numMatches exceeds the number of matches of a Success response
FewerThanRequested ==
    /\ Formatted
    /\ inv[1].norm.numMatches.t = "number"
    /\ inv[1].norm.numMatches.n > Len(inv[1].fetched.data.matches.items)

\* C7 as stated: with fewer matches than requested the row has
\* 8 x matches.length + 1 cells, every match contributing its eight cells.
C7_EveryMatchContributes ==
    FewerThanRequested =>
        Len(inv[1].reply.table[1]) = 8 * Len(inv[1].fetched.data.matches.items) + 1

\* C7 amended: with fewer matches than requested the row has 8k+1 cells, k
\* the number of ranks of 1..matches.length that some match carries; it has
\* 8 x matches.length + 1 cells exactly when the ranks of the matches are
\* 1..matches.length, each once.
C7_ContiguousRanksContribute ==
    FewerThanRequested =>
        LET ms == inv[1].fetched.data.matches.items
            carried == {i \in 1..Len(ms) : \E j \in 1..Len(ms) : ms[j].rank = Num(i)}
            row == inv[1].reply.table[1]
        IN /\ Len(row) = 8 * Cardinality(carried) + 1
           /\ (Len(row) = 8 * Len(ms) + 1) <=> (carried = 1..Len(ms))

\* numMatches = 3 and two matches, of rank 1 and 3: 9 cells
C7_Witness ==
    /\ FewerThanRequested
    /\ inv[1].norm.numMatches = Num(3)
    /\ Len(inv[1].fetched.data.matches.items) = 2
    /\ inv[1].fetched.data.matches.items[1].rank = Num(1)
    /\ inv[1].fetched.data.matches.items[2].rank = Num(3)
    /\ Len(inv[1].reply.table[1]) = 9

\* C8: a response that is not a 429 and whose body is not JSON yields one
\* row of one cell, the body text itself, and never reaches cache.put.
C8_MalformedVerbatim ==
    \A p \in Procs :
        (/\ Got(p)
         /\ inv[p].fetched.status # 429
         /\ inv[p].fetched.data.kind = "SyntaxError")
            => (/\ inv[p].pc = "returned"
                /\ inv[p].ret = <<<<Str(inv[p].fetched.text)>>>>
                /\ inv[p].nPut = 0
                /\ ~inv[p].reply.put)

C8_Witness ==
    \E p \in Procs :
        /\ Got(p)
        /\ inv[p].fetched.status = 500
        /\ inv[p].fetched.data.kind = "SyntaxError"
        /\ inv[p].pc = "returned"

\* a parsed body of a response that is not a 429
Parsed(p) ==
    Got(p) /\ inv[p].fetched.status # 429 /\ inv[p].fetched.data.kind = "value"

\* C9: for a parsed body of a response that is not a 429, an error yields
\* the cell '<code>: <message>' whatever else the body has; otherwise a
\* 'No good match was found' message yields that message whatever the
\* matches; only otherwise is the outcome Success; and one table of one row
\* comes out.  ("has an error field" is the code's test, data.error truthy.)
C9_Precedence ==
    \A p \in Procs :
        Parsed(p) =>
            LET data == inv[p].fetched.data
            IN /\ HasError(data.error)
                     => inv[p].ret = <<<<Str(toString(data.error.code) \o <<": ">>
                                               \o toString(data.error.message))>>>>
               /\ (~HasError(data.error) /\ SaysNoMatch(data))
                     => inv[p].ret = <<<<data.message>>>>
               /\ inv[p].reply.outcome = "Success"
                     => (~HasError(data.error) /\ ~SaysNoMatch(data)
                         /\ data.matches.items # <<>>)
               /\ inv[p].pc = "returned" => Len(inv[p].ret) = 1

\* an error object, a 'No good match was found' message and matches at once
C9_Witness ==
    \E p \in Procs :
        /\ Parsed(p)
        /\ inv[p].fetched.data.error.k = "object"
        /\ SaysNoMatch(inv[p].fetched.data)
        /\ inv[p].fetched.data.matches.items # <<>>
        /\ inv[p].reply.outcome = "ApiError"

\* C10: an invocation whose cache read failed goes on as on a miss: it ends
\* by returning the row made from its one fetch, not by raising.
C10_GetFailureIsMiss ==
    \A p \in Procs :
        (inv[p].getFailed /\ inv[p].pc \in {"returned", "raised"})
            => (/\ inv[p].pc = "returned"
                /\ inv[p].nFetch = 1
                /\ inv[p].ret = inv[p].reply.table)

\* C11: an invocation whose cache.put failed returns the table it would have
\* returned had the put succeeded, its formatted row, and the failed put
\* leaves the cache as it was; a put that succeeds changes the entry of the
\* invocation's key and nothing else.
C11_PutFailureSwallowed ==
    /\ [](\A p \in Procs :
            (inv[p].nPut = 1 /\ inv[p].putFailed)
                => (/\ inv[p].pc = "returned"
                    /\ inv[p].ret = <<FormatRow(inv[p].norm.numMatches,
                                                inv[p].fetched.data).row>>))
    /\ [][\A p \in Procs :
            (inv[p].pc = "put" /\ inv'[p].pc # "put")
                => (/\ inv'[p].pc = "returned"
                    /\ inv'[p].ret = inv[p].reply.table
                    /\ \A k \in Keys : k # inv[p].key => cache'[k] = cache[k]
                    /\ inv'[p].putFailed => cache' = cache
                    /\ ~inv'[p].putFailed => cache'[inv[p].key].present)]_vars

C11_Witness ==
    \E p \in Procs :
        /\ inv[p].pc = "returned"
        /\ inv[p].putFailed
        /\ Len(inv[p].ret[1]) = 17
        /\ ~cache[inv[p].key].present

\* the located match that makes the format loop throw: the first match of a
\* rank within the loop bound has no metric
FormatThrows(p) ==
    /\ Got(p)
    /\ ~(inv[p].fetched.status = 429 /\ RateLimitReturns(inv[p].fetched.data))
    /\ SuccessBody(inv[p].fetched)
    /\ LET ms == inv[p].fetched.data.matches.items
       IN \E i \in Located(inv[p].norm.numMatches, ms) :
             \E j \in 1..Len(ms) :
                /\ ms[j].rank = Num(i)
                /\ ~ms[j].metric.present
                /\ \A h \in 1..(j - 1) : ms[h].rank # Num(i)

\* C12: an error that reaches the catch of lines 198-206 (the fetch throws,
\* or formatting throws) yields the single cell 'Error: API request timed
\* out. Try simplifying your query.' when its description contains 'timeout'
\* or 'execution time', and 'Error: ' + description otherwise; nothing is put
\* in the cache.
C12_TimeoutConversion ==
    \A p \in Procs :
        (inv[p].nFetch = 1 /\ (inv[p].fetched.threw \/ FormatThrows(p)))
            => LET description == IF inv[p].fetched.threw THEN inv[p].fetched.err
                                  ELSE TypeErrorText
                   timedOut == \E i \in 1..Len(description) :
                                  description[i] \in {"timeout", "execution time"}
               IN /\ inv[p].pc = "returned"
                  /\ inv[p].nPut = 0
                  /\ inv[p].ret =
                        IF timedOut
                        THEN <<<<Str(<<"Error: API request timed out. Try simplifying your query.">>)>>>>
                        ELSE <<<<Str(<<"Error: ">> \o description)>>>>

C12_Witness ==
    \E p \in Procs :
        /\ inv[p].nFetch = 1
        /\ inv[p].fetched.threw
        /\ Includes(inv[p].fetched.err, "execution time")
        /\ inv[p].reply.outcome = "Timeout"

\* C13: an invocation moves CheckCache -> Return on a hit and CheckCache ->
\* Fetch -> (Write ->) Return on a miss and in no other way; it makes at most
\* one get, one fetch and one put, the get before the fetch and the fetch
\* before the put, and only a Success leads to the put.
C13_SinglePassToReturn ==
    /\ [](\A p \in Procs :
            /\ inv[p].nGet <= 1 /\ inv[p].nFetch <= 1 /\ inv[p].nPut <= 1
            /\ inv[p].nFetch = 1 => inv[p].nGet = 1
            /\ inv[p].nPut = 1 => inv[p].nFetch = 1
            /\ inv[p].hit => inv[p].nFetch = 0)
    /\ [][\A p \in Procs :
            inv'[p].pc # inv[p].pc
                => <<inv[p].pc, inv'[p].pc>> \in
                      {<<"idle", "get">>, <<"get", "returned">>, <<"get", "fetch">>,
                       <<"fetch", "returned">>, <<"fetch", "put">>,
                       <<"put", "returned">>, <<"returned", "idle">>}]_vars

\* C14: an invocation whose cache.get returned text that does not parse goes
\* on as on a miss: it does not raise and does not return the entry, it makes
\* its one fetch and returns the row made from the response, and its put, if
\* it succeeds, replaces the corrupt entry by the serialization of that row.
C14_CorruptEntryIsMiss ==
    /\ [](\A p \in Procs :
            inv[p].corrupt
                => (/\ inv[p].pc \in {"fetch", "put", "returned"}
                    /\ ~inv[p].hit
                    /\ inv[p].pc = "returned"
                          => (/\ inv[p].nFetch = 1
                              /\ inv[p].ret = Respond(inv[p].fetched,
                                                      inv[p].norm.numMatches).table)
                    /\ (inv[p].pc = "returned" /\ inv[p].nPut = 1 /\ ~inv[p].putFailed
                        /\ wrote[inv[p].key].present)
                          => (/\ cache[inv[p].key].text.valid
                              /\ JSONparse(cache[inv[p].key].text)
                                    = [r \in 1..1 |->
                                         [c \in 1..Len(inv[p].ret[1]) |->
                                            ToJSON(inv[p].ret[1][c])]])))
    /\ [][\A p \in Procs :
            (inv[p].pc = "get" /\ inv'[p].pc # "get" /\ ~inv'[p].getFailed
             /\ cache[inv[p].key].present /\ ~cache[inv[p].key].text.valid)
                => (inv'[p].pc = "fetch" /\ inv'[p].corrupt)]_vars

C14_Witness ==
    \E p \in Procs :
        /\ inv[p].corrupt
        /\ inv[p].pc = "returned"
        /\ inv[p].nPut = 1
        /\ ~inv[p].putFailed
        /\ cache[inv[p].key].text.valid

\* the permutations of 1..n, as functions
Orders(n) == {f \in [1..n -> 1..n] : \A i, j \in 1..n : f[i] = f[j] => i = j}

\* the row formatted from the response of call 1 with its matches reordered
RowOfPermuted(f) ==
    LET data == inv[1].fetched.data
        ms == data.matches.items
    IN FormatRow(inv[1].norm.numMatches,
                 [data EXCEPT !.matches = MatchArray([j \in 1..Len(ms) |-> ms[f[j]]])]).row

\* the ranks named by the 'Match i: ...' cells of the row, in row order
RanksOfRow(row) == [j \in 1..((Len(row) - 1) \div 8) |-> row[8 * (j - 1) + 1].s[2]]

\* the ranks up to the loop bound that some match carries, in ascending
\* order, as they are written in a 'Match i: ...' cell
RECURSIVE RanksFrom(_, _, _)
RanksFrom(i, numMatches, ms) ==
    IF i > RankBound(numMatches, ms) THEN <<>>
    ELSE (IF \E j \in 1..Len(ms) : ms[j].rank = Num(i) THEN NatToStr(i) ELSE <<>>)
            \o RanksFrom(i + 1, numMatches, ms)

\* a rank without a match adds no cells and does not stop later ranks, and
\* no rank beyond min(numMatches, matches.length) is emitted
EmitsLocatedRanks ==
    LET ms == inv[1].fetched.data.matches.items
    IN RanksOfRow(inv[1].reply.table[1]) = RanksFrom(1, inv[1].norm.numMatches, ms)

\* C15 as stated: the row of a Success is the same for every order of the
\* matches array, and exactly the located ranks are emitted.
C15_AnyPermutation ==
    Formatted =>
        /\ EmitsLocatedRanks
        /\ \A f \in Orders(Len(inv[1].fetched.data.matches.items)) :
              RowOfPermuted(f) = inv[1].reply.table[1]

\* no two matches share a rank of 1..min(numMatches, matches.length)
RanksUnique ==
    LET ms == inv[1].fetched.data.matches.items
    IN \A i, j \in 1..Len(ms) :
          (ms[i].rank = ms[j].rank
           /\ \E r \in 1..RankBound(inv[1].norm.numMatches, ms) : ms[i].rank = Num(r))
              => i = j

\* C15 amended: exactly the located ranks are emitted, and the row is the
\* same for every order of the matches array when no two matches share a
\* rank of 1..min(numMatches, matches.length); of matches that share such a
\* rank the first in array order is the one emitted.
C15_PermutationOfUniqueRanks ==
    Formatted =>
        /\ EmitsLocatedRanks
        /\ RanksUnique
              => \A f \in Orders(Len(inv[1].fetched.data.matches.items)) :
                    RowOfPermuted(f) = inv[1].reply.table[1]
        /\ LET ms == inv[1].fetched.data.matches.items
               row == inv[1].reply.table[1]
           IN \A j \in 1..Len(RanksOfRow(row)) :
                 \E h \in 1..Len(ms) :
                    /\ NatToStr(ms[h].rank.n) = <<RanksOfRow(row)[j]>>
                    /\ \A g \in 1..(h - 1) : ms[g].rank # ms[h].rank
                    /\ row[8 * (j - 1) + 1].s[4] = ms[h].matched_name.s[1]
                    /\ row[8 * (j - 1) + 2] = ms[h].metric.value

\* matches of rank 3, 1 in this order, numMatches 3: rank 1 is emitted, rank
\* 2 is skipped, rank 3 is beyond min(3, 2)
C15_Witness ==
    /\ Formatted
    /\ RanksUnique
    /\ inv[1].norm.numMatches = Num(3)
    /\ Len(inv[1].fetched.data.matches.items) = 2
    /\ inv[1].fetched.data.matches.items[1].rank = Num(3)
    /\ inv[1].fetched.data.matches.items[2].rank = Num(1)
    /\ RanksOfRow(inv[1].reply.table[1]) = <<"1">>

\* C16: a response that is not a 429, whose body parses and has no error, no
\* 'No good match was found' message and no or no element in matches yields
\* the single cell 'Message from API: <message>' when it has a message and
\* the body text itself otherwise, and never reaches cache.put.  ("has a
\* message" is the code's test, data.message truthy.)
C16_UnexpectedShape ==
    \A p \in Procs :
        (/\ Got(p)
         /\ inv[p].fetched.status # 429
         /\ inv[p].fetched.data.kind \in {"value", "null"}
         /\ ~HasError(inv[p].fetched.data.error)
         /\ ~SaysNoMatch(inv[p].fetched.data)
         /\ inv[p].fetched.data.matches.items = <<>>)
            => (/\ inv[p].pc = "returned"
                /\ inv[p].nPut = 0
                /\ inv[p].ret =
                      IF Truthy(inv[p].fetched.data.message)
                      THEN <<<<Str(<<"Message from API: ">>
                                     \o toString(inv[p].fetched.data.message))>>>>
                      ELSE <<<<Str(inv[p].fetched.text)>>>>)

C16_Witness ==
    \E p \in Procs :
        /\ Got(p)
        /\ inv[p].fetched.status = 200
        /\ inv[p].fetched.data.kind = "value"
        /\ inv[p].fetched.data.matches = MatchArray(<<>>)
        /\ inv[p].fetched.data.message = Str(<<"hello">>)
        /\ inv[p].reply.outcome = "UnexpectedShape"

\* the places of the query string q where the text w starts
Places(q, w) == {i \in 1..(Len(q) - Len(w) + 1) : SubSeq(q, i, i + Len(w) - 1) = w}

\* the query string q has the parameter `name` once, with the encoded value
\* v, ended by the next '&' or by the end of the string
HasOnce(q, name, v) ==
    /\ Cardinality(Places(q, name)) = 1
    /\ LET at == CHOOSE i \in Places(q, name) : TRUE
           end == at + Len(name) + Len(v)
       IN /\ SubSeq(q, at + Len(name), end - 1) = v
          /\ end <= Len(q) => q[end] = "&"

\* the parameter is there once when `present` and not at all otherwise
OnceIf(q, present, name, v) ==
    IF present THEN HasOnce(q, name, v) ELSE Places(q, name) = {}

\* where a parameter starts in q, 0 when it is not there
PlaceOf(q, name) == IF Places(q, name) = {} THEN 0 ELSE CHOOSE i \in Places(q, name) : TRUE

\* the percent-encoding of a value: '%' and the two hexadecimal digits of
\* the character code for ' ' (20), '&' (26) and '=' (3D)
RECURSIVE Encoded(_)
Encoded(s) ==
    IF s = <<>> THEN <<>>
    ELSE (IF Head(s) = " " THEN <<"%", "2", "0">>
          ELSE IF Head(s) = "&" THEN <<"%", "2", "6">>
          ELSE IF Head(s) = "=" THEN <<"%", "3", "D">>
          ELSE <<Head(s)>>) \o Encoded(Tail(s))

\* C17: the query string sent on a miss has item_name, web_mode=false and
\* not_english=<boolean> once each whatever the values; it has each of year,
\* geography, metric, mode, num_matches, domain, unit once, with its
\* percent-encoded value, when the prepared value is non-empty (for
\* numMatches: the code's test, a number other than 0 and NaN) and not at all
\* otherwise; the parameters come in one fixed order; equal prepared
\* parameters give equal query strings.
C17_QueryComposition ==
    inv[1].nFetch = 1 =>
        LET q == inv[1].query
            p == inv[1].norm
            order == <<ItemNameEq, YearEq, GeographyEq, MetricEq, ModeEq, WebModeFalse,
                       NumMatchesEq, DomainEq, NotEnglishEq, UnitEq>>
        IN /\ PlaceOf(q, ItemNameEq) = 1
           /\ HasOnce(q, ItemNameEq, Encoded(p.itemName))
           /\ HasOnce(q, WebModeFalse, <<>>)
           /\ HasOnce(q, NotEnglishEq, toString(p.notEnglish))
           /\ OnceIf(q, p.year # <<>>, YearEq, Encoded(p.year))
           /\ OnceIf(q, p.geography # <<>>, GeographyEq, Encoded(p.geography))
           /\ OnceIf(q, p.metric # <<>>, MetricEq, Encoded(p.metric))
           /\ OnceIf(q, p.mode # <<>>, ModeEq, Encoded(p.mode))
           /\ OnceIf(q, Truthy(p.numMatches), NumMatchesEq, toString(p.numMatches))
           /\ OnceIf(q, p.domain # <<>>, DomainEq, Encoded(p.domain))
           /\ OnceIf(q, p.unit # <<>>, UnitEq, Encoded(p.unit))
           /\ LET at == [i \in 1..Len(order) |-> PlaceOf(q, order[i])]
              IN \A i, j \in 1..Len(order) :
                    (i < j /\ at[i] > 0 /\ at[j] > 0) => at[i] < at[j]
           /\ \A year \in {Undef, Num(7), Str(<<" ">>)}, ne \in {Undef, Bool(FALSE), Bool(TRUE)} :
                 LET other == Normalize([inv[1].raw EXCEPT !.year = year, !.notEnglish = ne])
                 IN other = p => QueryParams(other) = q

\* itemName '&year=7' with no year, an empty mode and numMatches 0
C17_Witness ==
    /\ inv[1].nFetch = 1
    /\ inv[1].norm.itemName = <<"&", "y", "e", "a", "r", "=", "7">>
    /\ inv[1].norm.year = <<>>
    /\ inv[1].norm.mode = <<>>
    /\ inv[1].norm.numMatches = Num(0)
    /\ inv[1].norm.unit = <<"=">>

\* the rows a call with key k can compute from a Success response
RowsFor(k) ==
    {Respond(f, Normalize(raw).numMatches).table :
        f \in {g \in ConcFetches : Respond(g, Num(1)).put},
        raw \in {r \in ConcInputs : CacheKey(Normalize(r)) = k}}

\* the entry under k is the whole of one row some call computed: one row,
\* every cell of it, undefined written as null
CompleteEntry(k) ==
    /\ cache[k].text.valid
    /\ wrote[k].present
    /\ wrote[k].table \in RowsFor(k)
    /\ LET stored == JSONparse(cache[k].text)
           row == wrote[k].table[1]
       IN /\ Len(stored) = 1
          /\ Len(stored[1]) = Len(row)
          /\ \A c \in 1..Len(row) :
                stored[1][c] =
                    (IF row[c].t \in {"undefined", "NaN", "Infinity"} THEN Null ELSE row[c])

\* C18: with two calls interleaved on one cache, (a) every entry is at all
\* times the whole of one row computed by one call, never a part of one;
\* (b) a call that returns from a hit returns the entry it read, having
\* fetched and put nothing; (c) a call that returns after a miss fetched
\* once and returns the table computed from its own parameters and its own
\* response, and has put once when that response was a success; (d) a step
\* changes the locals of one call only; (e) a put that succeeds replaces the
\* entry under its key by the putting call's row, whatever was there.
C18_OnlyThroughCache ==
    /\ [](/\ \A k \in Keys : cache[k].present => CompleteEntry(k)
          /\ \A p \in Procs :
                inv[p].pc = "returned" =>
                    IF inv[p].hit
                    THEN inv[p].nFetch = 0 /\ inv[p].nPut = 0
                    ELSE /\ inv[p].nGet = 1 /\ inv[p].nFetch = 1
                         /\ inv[p].ret =
                               Respond(inv[p].fetched, Normalize(inv[p].raw).numMatches).table
                         /\ inv[p].nPut = (IF inv[p].reply.put THEN 1 ELSE 0))
    /\ [][/\ \E p \in Procs : \A q \in Procs \ {p} : inv'[q] = inv[q]
          /\ \A p \in Procs :
                /\ (inv[p].pc = "get" /\ inv'[p].pc = "returned")
                      => (/\ cache[inv[p].key].present
                          /\ inv'[p].ret = JSONparse(cache[inv[p].key].text))
                /\ (inv[p].pc = "put" /\ inv'[p].pc = "returned" /\ ~inv'[p].putFailed)
                      => (/\ cache'[inv[p].key].present
                          /\ wrote'[inv[p].key].table = inv[p].reply.table
                          /\ inv'[p].ret = inv[p].reply.table)]_vars

\* both calls had the same key, both missed, each fetched and put its own
\* row, and the rows differ
C18_Witness ==
    /\ \A p \in Procs :
          /\ inv[p].pc = "returned" /\ ~inv[p].hit
          /\ inv[p].nFetch = 1 /\ inv[p].nPut = 1 /\ ~inv[p].putFailed
    /\ inv[1].key = inv[2].key
    /\ inv[1].raw # inv[2].raw
    /\ inv[1].ret # inv[2].ret
    /\ Len(inv[1].ret[1]) # Len(inv[2].ret[1])
    /\ cache[inv[1].key].present

\* C19: a call answered from the cache is answered with a row that was put,
\* after a success response, by a call with the same nine prepared
\* parameters.
C19_HitForSameParameters ==
    \A p \in Procs :
        (inv[p].pc = "returned" /\ inv[p].hit /\ wrote[inv[p].key].present)
            => wrote[inv[p].key].norm = inv[p].norm

\* the number of matches in a row of 8k+1 cells, -1 for any other length
MatchesIn(row) == IF Len(row) % 8 = 1 THEN (Len(row) - 1) \div 8 ELSE 0 - 1

\* the tables of one diagnostic cell that the responses of the model give
Diagnostics ==
    {Respond(f, Num(1)).table : f \in {g \in EntryFetches : ~Respond(g, Num(1)).put}}

\* what holds of the entry under k whatever numMatches was: written by a
\* call with the key k, with the expiration of 120 seconds, the text of the
\* one-row table the writer returned, and no diagnostic
EntryOfWriter(k) ==
    /\ wrote[k].present
    /\ CacheKey(wrote[k].norm) = k
    /\ cache[k].ttl = 120
    /\ cache[k].text = JSONstringify(wrote[k].table)
    /\ Len(wrote[k].table) = 1
    /\ MatchesIn(wrote[k].table[1]) >= 0
    /\ wrote[k].table \notin Diagnostics

\* C20 as stated: every entry is the text of a one-row table of 8k+1 cells
\* with 0 <= k <= numMatches of the writing call (a comparison with NaN is
\* false), stored for 120 seconds under the writer's key, equal to the table
\* the writer returned, and no diagnostic.
C20_AtMostNumMatches ==
    \A k \in Keys :
        cache[k].present =>
            /\ EntryOfWriter(k)
            /\ wrote[k].norm.numMatches.t = "number"
            /\ MatchesIn(wrote[k].table[1]) <= wrote[k].norm.numMatches.n

\* C20: every entry is the text of a one-row table of 8k+1 cells, stored for
\* 120 seconds under the writer's key, equal to the table the writer
\* returned (the put step returns the table it stores), and no diagnostic;
\* k <= numMatches when the writer's numMatches is a positive integer, and
\* k = 0 when it is 0, negative or NaN; k is at most the number of matches of
\* the response.
C20_AtMostPositiveNumMatches ==
    /\ [](\A k \in Keys :
            cache[k].present =>
                /\ EntryOfWriter(k)
                /\ LET n == wrote[k].norm.numMatches
                   IN MatchesIn(wrote[k].table[1])
                         <= (IF n.t = "number" /\ n.n > 0 THEN n.n ELSE 0))
    /\ [][\A p \in Procs :
            (inv[p].pc = "put" /\ inv'[p].pc = "returned" /\ ~inv'[p].putFailed)
                => (/\ inv[p].reply.outcome = "Success"
                    /\ MatchesIn(inv'[p].ret[1]) <= Len(inv[p].fetched.data.matches.items)
                    /\ cache'[inv[p].key].text = JSONstringify(inv'[p].ret)
                    /\ wrote'[inv[p].key].norm = Normalize(inv[p].raw)
                    /\ \A k \in Keys \ {inv[p].key} : cache'[k] = cache[k])]_vars

\* entries written by calls with numMatches NaN, -1 and 2, the last with one
\* match of the two asked for
C20_Witness ==
    \E k1, k2, k3 \in Keys :
        /\ cache[k1].present /\ wrote[k1].norm.numMatches = NaN
        /\ cache[k2].present /\ wrote[k2].norm.numMatches = Num(0 - 1)
        /\ Len(wrote[k2].table[1]) = 1
        /\ cache[k3].present /\ wrote[k3].norm.numMatches = Num(2)
        /\ Len(wrote[k3].table[1]) = 9

====
